---- MODULE Spec2Model ----
(***************************************************************************)
(* Model of the faucet's websocket request loop (src/ws.go, OnWebsocket):  *)
(* one worker goroutine per connection, the shared faucet.lock guarding    *)
(* faucet.conns and faucet.timeouts, the per-connection write lock, the    *)
(* external transaction submission SendTx and the deferred teardown.       *)
(*                                                                         *)
(* A critical section of faucet.lock that contains no blocking call (the   *)
(* registration, the deregistration, the rate check that rejects, the      *)
(* commit after SendTx has returned) is one step: no other worker can see  *)
(* or change the shared state inside it.  The section around SendTx is     *)
(* split at the call, the only place a worker waits while holding the lock.*)
(*                                                                         *)
(* Time is a monotonic clock: `clock` is the latest reading of time.Now(), *)
(* and every call of time.Now() returns the previous reading plus a step   *)
(* of Deltas.  One time unit is one second (time.Duration counts           *)
(* nanoseconds; the durations of the model are whole minutes, which the    *)
(* division by 288 of the default configuration keeps whole).              *)
(***************************************************************************)
EXTENDS Integers, Sequences, FiniteSets, TLC

\* ---------------------------------------------------------------- bounds
MaxReq == 3       \* requests read, over all the connections
MaxTicks == 1     \* readings of time.Now() that move the clock forward
MaxTier == 19     \* the largest tier an amount and a timeout are computed for
MaxPayout == 3    \* the largest -faucet.payout
MaxFairReq == 2   \* requests read in the runs of FairSpec

Workers == {1, 2}                 \* connections, one worker goroutine each
Ids == {"A", "B"}                 \* requester identifiers (msg.URL)
TxErrors == {"nonce", "rpc"}

\* ------------------------------------------------------ program constants
tiersFlag == 2        \* -faucet.tiers
minutesFlag == 1440   \* -faucet.minutes
Minute == 60          \* time.Minute, in seconds
GraceDiv == 288       \* grace := timeout / 288
ZeroTime == 0         \* the zero time.Time a missing map entry reads as
StartTime == 1        \* the first reading of the clock, after the zero time

ReqTiers == 0..tiersFlag          \* msg.Tier values: the valid ones and one too big
Requests == [url : Ids, tier : ReqTiers]

None == 0                         \* no holder of a lock
NoMsg == [url |-> "-", tier |-> 0]
NoReply == [kind |-> "none", text |-> "-"]
NoFund == [at |-> 0, tier |-> 0]
NoSent == [kind |-> "none", req |-> 0]

VARIABLES
    pc,        \* pc[w]: position of worker w in OnWebsocket
    lock,      \* faucet.lock: its holder, or None
    conns,     \* faucet.conns: the registry, a sequence of connections
    timeouts,  \* faucet.timeouts: a map (function on the funded identifiers)
    wlock,     \* wlock[w]: wsConn.wlock of connection w is held
    closed,    \* closed[w]: conn.Close() has run on connection w
    clock,     \* the latest reading of time.Now()
    ticks,     \* how many readings moved the clock
    nread,     \* nread[w]: how many requests ReadJSON has returned on w
    msg,       \* msg[w]: the request being processed
    now,       \* now[w]: the reading of time.Now() at the rate check
    reply,     \* reply[w]: the reply handed to send
    nsent,     \* nsent[w]: how many replies WriteJSON has written on w
    lastSent,  \* lastSent[w]: the kind of the latest of them and its request's number
    lastFund,  \* lastFund[id]: time and tier of id's latest funding
    calc       \* a configuration, a tier, and the amount and timeout computed for them

vars == <<pc, lock, conns, timeouts, wlock, closed, clock, ticks, nread,
          msg, now, reply, nsent, lastSent, lastFund, calc>>

\* ---------------------------------------------------------- pure helpers
RECURSIVE Pow(_, _)
Pow(b, e) == IF e = 0 THEN 1 ELSE b * Pow(b, e - 1)

\* time.Duration(*minutesFlag*int(math.Pow(3, float64(msg.Tier)))) * time.Minute
Cooldown(tier) == minutesFlag * Pow(3, tier) * Minute

\* grace := timeout / 288
Grace(tier) == Cooldown(tier) \div GraceDiv

\* mutant: at or after
AfterOrEqual(t, u) == t >= u

\* t.After(u)
After(t, u) == t > u

\* m[url] of a map of times: the zero time when the map has no entry
LookupIn(m, url) == IF url \in DOMAIN m THEN m[url] ELSE ZeroTime

\* faucet.timeouts[url]
Lookup(url) == LookupIn(timeouts, url)

\* mutant: the tier check lets the first tier past the last one through
InvalidTierOffByOne(tier) == tier > tiersFlag

\* msg.Tier >= uint(*tiersFlag)
InvalidTier(tier) == tier >= tiersFlag

\* mutant: the rate check compares the wrong way round, timeout.After(time.Now())
EligibleSwapped(t, url) == After(Lookup(url), t)

\* mutant: the rate check is skipped
EligibleAlways(t, url) == TRUE

\* time.Now().After(timeout), timeout = faucet.timeouts[msg.URL]
Eligible(t, url) == After(t, Lookup(url))

\* mutant: the grace is not subtracted
NextEligibleNoGrace(t, tier) == t + Cooldown(tier)

\* time.Now().Add(timeout - grace)
NextEligible(t, tier) == t + (Cooldown(tier) - Grace(tier))

\* the steps a reading of time.Now() can be ahead of the previous reading
Deltas == {0, Cooldown(0) - Grace(0), Cooldown(0) - Grace(0) + 1}

\* the readings time.Now() can return next
Readings == {clock + d : d \in {e \in Deltas : e = 0 \/ ticks < MaxTicks}}

Ticked(t) == IF t = clock THEN ticks ELSE ticks + 1

ErrorReply(text) == [kind |-> "error", text |-> text]
SuccessReply(text) == [kind |-> "success", text |-> text]

\* mutant: the first entry is removed, whatever the index found
RemoveFirst(s, i) == SubSeq(s, 2, Len(s))

\* faucet.conns = append(faucet.conns[:i], faucet.conns[i+1:]...)
RemoveAt(s, i) == SubSeq(s, 1, i - 1) \o SubSeq(s, i + 1, Len(s))

\* the index of the first entry of faucet.conns that is connection w, or 0
IndexOf(s, w) ==
    IF \E i \in 1..Len(s) : s[i] = w
    THEN CHOOSE i \in 1..Len(s) : s[i] = w /\ \A j \in 1..(i - 1) : s[j] # w
    ELSE 0

\* mutant: the deferred function compares the wrong values and finds no entry
RemovedNothing(s, w) == s

\* for i, c := range faucet.conns { if c.conn == conn { remove entry i; break } }
Removed(s, w) == IF IndexOf(s, w) = 0 THEN s ELSE RemoveAt(s, IndexOf(s, w))

Registered(w) == \E i \in 1..Len(conns) : conns[i] = w

RECURSIVE Sum(_, _)
Sum(f, S) == IF S = {} THEN 0 ELSE LET x == CHOOSE y \in S : TRUE IN f[x] + Sum(f, S \ {x})
NRead == Sum(nread, Workers)

\* ------------------------------------------- amounts and durations, exact
\* A payout in wei and a time.Duration in nanoseconds exceed the model
\* checker's integers.  A natural number is written as the sequence of its
\* digits in base Limb, the least significant first, without leading zeros.
Limb == 256
Int64Limbs == 8                     \* int64, the type under time.Duration

RECURSIVE Norm(_)
Norm(s) == IF s # <<>> /\ s[Len(s)] = 0 THEN Norm(SubSeq(s, 1, Len(s) - 1)) ELSE s

RECURSIVE FromInt(_)
FromInt(n) == IF n = 0 THEN <<>> ELSE <<n % Limb>> \o FromInt(n \div Limb)

RECURSIVE MulCarry(_, _, _)
MulCarry(s, k, c) ==
    IF s = <<>> THEN FromInt(c)
    ELSE LET p == Head(s) * k + c
         IN  <<p % Limb>> \o MulCarry(Tail(s), k, p \div Limb)

\* s * k
Mul(s, k) == Norm(MulCarry(s, k, 0))

\* s * k^e
RECURSIVE MulPow(_, _, _)
MulPow(s, k, e) == IF e = 0 THEN s ELSE Mul(MulPow(s, k, e - 1), k)

\* quotient and remainder of s by k
RECURSIVE DivMod(_, _)
DivMod(s, k) ==
    IF s = <<>> THEN [q |-> <<>>, r |-> 0]
    ELSE LET hi == DivMod(Tail(s), k)
             cur == hi.r * Limb + Head(s)
         IN  [q |-> <<cur \div k>> \o hi.q, r |-> cur % k]

\* big.Int.Div of a non-negative s by a positive k
Div(s, k) == Norm(DivMod(s, k).q)

RECURSIVE AddCarry(_, _)
AddCarry(s, c) ==
    IF c = 0 THEN s
    ELSE IF s = <<>> THEN <<c>>
    ELSE <<(Head(s) + c) % Limb>> \o AddCarry(Tail(s), (Head(s) + c) \div Limb)

\* the low 64 bits of s
Low64(s) == [i \in 1..Int64Limbs |-> IF i <= Len(s) THEN s[i] ELSE 0]

\* the int64 a product wraps to: the two's complement reading of its low 64
\* bits, as a sign and a magnitude
Int64(s) ==
    LET low == Low64(s)
    IN  IF low[Int64Limbs] < Limb \div 2
        THEN [neg |-> FALSE, mag |-> Norm(low)]
        ELSE [neg |-> TRUE,
              mag |-> Norm(AddCarry([i \in 1..Int64Limbs |-> Limb - 1 - low[i]], 1))]

\* the product fits an int64
FitsInt64(s) == Len(s) < Int64Limbs \/ (Len(s) = Int64Limbs /\ s[Int64Limbs] < Limb \div 2)

payoutFlag == 1       \* -faucet.amount, as int64(*payoutFlag)
EtherExp == 18        \* ether = 1000_000_000_000_000_000 = 10^18 wei
ether == MulPow(<<1>>, 10, EtherExp)

\* mutant: the tiers grow by the factor 3/2
AmountBy3(payout, tier) ==
    Div(MulPow(Mul(ether, payout), 3, tier), Pow(2, tier))

\* amount := new(big.Int).Mul(big.NewInt(int64(*payoutFlag)), ether)
\* amount.Mul(amount, new(big.Int).Exp(big.NewInt(5), big.NewInt(int64(msg.Tier)), nil))
\* amount.Div(amount, new(big.Int).Exp(big.NewInt(2), big.NewInt(int64(msg.Tier)), nil))
\* (the product by 5^tier is taken one factor at a time)
Amount(payout, tier) ==
    Div(MulPow(Mul(ether, payout), 5, tier), Pow(2, tier))

\* minutes * 3^tier minutes in the integers, in nanoseconds
TimeoutExact(minutes, tier) ==
    Mul(MulPow(MulPow(FromInt(minutes), 3, tier), 1000, 3), Minute)

\* mutant: the tiers grow by the factor 2
TimeoutBy2(minutes, tier) ==
    Int64(Mul(MulPow(MulPow(FromInt(minutes), 2, tier), 1000, 3), Minute))

\* timeout := time.Duration(*minutesFlag*int(math.Pow(3, float64(msg.Tier)))) * time.Minute
\* in nanoseconds, with the width of time.Duration
Timeout(minutes, tier) ==
    Int64(TimeoutExact(minutes, tier))

Calc(payout, minutes, tier) ==
    [payout |-> payout, minutes |-> minutes, tier |-> tier,
     amount |-> Amount(payout, tier), timeout |-> Timeout(minutes, tier)]

\* ------------------------------------------------------------------ Init
Init ==
    /\ pc = [w \in Workers |-> "idle"]
    /\ lock = None
    /\ conns = <<>>
    /\ timeouts = <<>>
    /\ wlock = [w \in Workers |-> FALSE]
    /\ closed = [w \in Workers |-> FALSE]
    /\ clock = StartTime
    /\ ticks = 0
    /\ nread = [w \in Workers |-> 0]
    /\ msg = [w \in Workers |-> NoMsg]
    /\ now = [w \in Workers |-> ZeroTime]
    /\ reply = [w \in Workers |-> NoReply]
    /\ nsent = [w \in Workers |-> 0]
    /\ lastSent = [w \in Workers |-> NoSent]
    /\ lastFund = [id \in Ids |-> NoFund]
    /\ calc = Calc(payoutFlag, minutesFlag, 0)

\* --------------------------------------------------------------- actions
\* upgrader.Upgrade: on an error the handler returns before anything is deferred
Upgrade(w) ==
    /\ pc[w] = "idle"
    /\ \E ok \in BOOLEAN : pc' = [pc EXCEPT ![w] = IF ok THEN "lockReg" ELSE "exited"]
    /\ UNCHANGED <<calc, lock, conns, timeouts, wlock, closed, clock, ticks, nread,
                   msg, now, reply, nsent, lastSent, lastFund>>

\* faucet.lock.Lock(); faucet.conns = append(faucet.conns, wsconn); faucet.lock.Unlock()
Register(w) ==
    /\ pc[w] = "lockReg"
    /\ lock = None
    /\ conns' = Append(conns, w)
    /\ pc' = [pc EXCEPT ![w] = "read"]
    /\ UNCHANGED <<calc, lock, timeouts, wlock, closed, clock, ticks, nread,
                   msg, now, reply, nsent, lastSent, lastFund>>

\* mutant: an invalid tier is skipped with continue, and no reply is sent
ReadRequestNoTierReply(w, r) ==
    /\ pc[w] = "read"
    /\ NRead < MaxReq
    /\ nread' = [nread EXCEPT ![w] = @ + 1]
    /\ IF InvalidTier(r.tier)
       THEN /\ msg' = msg
            /\ pc' = pc
       ELSE /\ msg' = [msg EXCEPT ![w] = r]
            /\ pc' = [pc EXCEPT ![w] = "lockRate"]
    /\ UNCHANGED <<calc, lock, conns, timeouts, wlock, closed, clock, ticks,
                   now, reply, nsent, lastSent, lastFund>>

\* conn.ReadJSON(&msg) returns the next request r of the connection, and the
\* tier is validated: if msg.Tier >= uint(*tiersFlag) { sendError(...); continue }
ReadRequest(w, r) ==
    /\ pc[w] = "read"
    /\ NRead < MaxReq
    /\ nread' = [nread EXCEPT ![w] = @ + 1]
    /\ msg' = [msg EXCEPT ![w] = r]
    /\ IF InvalidTier(r.tier)
       THEN /\ reply' = [reply EXCEPT ![w] = ErrorReply("Invalid funding tier requested")]
            /\ pc' = [pc EXCEPT ![w] = "send"]
       ELSE /\ reply' = reply
            /\ pc' = [pc EXCEPT ![w] = "lockRate"]
    /\ UNCHANGED <<calc, lock, conns, timeouts, wlock, closed, clock, ticks,
                   now, nsent, lastSent, lastFund>>

\* conn.ReadJSON(&msg) returns an error (client gone, malformed message): return
ReadError(w) ==
    /\ pc[w] = "read"
    /\ pc' = [pc EXCEPT ![w] = "lockDereg"]
    /\ UNCHANGED <<calc, lock, conns, timeouts, wlock, closed, clock, ticks, nread,
                   msg, now, reply, nsent, lastSent, lastFund>>

\* mutant: the lock is released after the rate check, before SendTx is called
RateCheckUnlocked(w) ==
    /\ pc[w] = "lockRate"
    /\ lock = None
    /\ \E t \in Readings :
        /\ clock' = t
        /\ ticks' = Ticked(t)
        /\ IF Eligible(t, msg[w].url)
           THEN /\ now' = [now EXCEPT ![w] = t]
                /\ reply' = reply
                /\ pc' = [pc EXCEPT ![w] = "submit"]
           ELSE /\ now' = now
                /\ reply' = [reply EXCEPT ![w] = ErrorReply("left until next allowance")]
                /\ pc' = [pc EXCEPT ![w] = "send"]
    /\ UNCHANGED <<calc, lock, conns, timeouts, wlock, closed, nread, msg, nsent, lastSent, lastFund>>

\* mutant: a request that is rate limited leaves the section without faucet.lock.Unlock()
RateCheckKeepsLock(w) ==
    /\ pc[w] = "lockRate"
    /\ lock = None
    /\ \E t \in Readings :
        /\ clock' = t
        /\ ticks' = Ticked(t)
        /\ lock' = w
        /\ IF Eligible(t, msg[w].url)
           THEN /\ now' = [now EXCEPT ![w] = t]
                /\ reply' = reply
                /\ pc' = [pc EXCEPT ![w] = "submit"]
           ELSE /\ now' = now
                /\ reply' = [reply EXCEPT ![w] = ErrorReply("left until next allowance")]
                /\ pc' = [pc EXCEPT ![w] = "send"]
    /\ UNCHANGED <<calc, conns, timeouts, wlock, closed, nread, msg, nsent, lastSent, lastFund>>

\* faucet.lock.Lock(); if timeout = faucet.timeouts[msg.URL]; time.Now().After(timeout)
\* then SendTx is called with the lock held; otherwise faucet.lock.Unlock() and
\* the error reply "... left until next allowance" is built
RateCheck(w) ==
    /\ pc[w] = "lockRate"
    /\ lock = None
    /\ \E t \in Readings :
        /\ clock' = t
        /\ ticks' = Ticked(t)
        /\ IF Eligible(t, msg[w].url)
           THEN /\ lock' = w
                /\ now' = [now EXCEPT ![w] = t]
                /\ reply' = reply
                /\ pc' = [pc EXCEPT ![w] = "submit"]
           ELSE /\ lock' = None
                /\ now' = now
                /\ reply' = [reply EXCEPT ![w] = ErrorReply("left until next allowance")]
                /\ pc' = [pc EXCEPT ![w] = "send"]
    /\ UNCHANGED <<calc, conns, timeouts, wlock, closed, nread, msg, nsent, lastSent, lastFund>>

\* mutant: the identifier is marked as funded before the error of SendTx is looked at
SubmitFailCommits(w, e) ==
    /\ pc[w] = "submit"
    /\ timeouts' = [id \in DOMAIN timeouts \cup {msg[w].url} |->
                      IF id = msg[w].url
                      THEN NextEligible(clock, msg[w].tier)
                      ELSE timeouts[id]]
    /\ reply' = [reply EXCEPT ![w] = ErrorReply(e)]
    /\ lock' = None
    /\ now' = [now EXCEPT ![w] = ZeroTime]
    /\ pc' = [pc EXCEPT ![w] = "send"]
    /\ UNCHANGED <<calc, conns, wlock, closed, clock, ticks, nread, msg,
                   nsent, lastSent, lastFund>>

\* mutant: the error reply is sent before faucet.lock.Unlock()
SubmitFailKeepsLock(w, e) ==
    /\ pc[w] = "submit"
    /\ reply' = [reply EXCEPT ![w] = ErrorReply(e)]
    /\ now' = [now EXCEPT ![w] = ZeroTime]
    /\ pc' = [pc EXCEPT ![w] = "send"]
    /\ UNCHANGED <<calc, lock, conns, timeouts, wlock, closed, clock, ticks, nread, msg,
                   nsent, lastSent, lastFund>>

\* SendTx returns the error e: faucet.lock.Unlock(); sendError(wsconn, err)
SubmitFail(w, e) ==
    /\ pc[w] = "submit"
    /\ reply' = [reply EXCEPT ![w] = ErrorReply(e)]
    /\ lock' = None
    /\ now' = [now EXCEPT ![w] = ZeroTime]
    /\ pc' = [pc EXCEPT ![w] = "send"]
    /\ UNCHANGED <<calc, conns, timeouts, wlock, closed, clock, ticks, nread, msg,
                   nsent, lastSent, lastFund>>

\* mutant: the success is answered without the commit
SubmitOkNoCommit(w) ==
    /\ pc[w] = "submit"
    /\ lock' = None
    /\ reply' = [reply EXCEPT ![w] =
                   SuccessReply("Funding request accepted for Faucet into " \o msg[w].url)]
    /\ now' = [now EXCEPT ![w] = ZeroTime]
    /\ pc' = [pc EXCEPT ![w] = "send"]
    /\ UNCHANGED <<calc, conns, timeouts, wlock, closed, clock, ticks, nread, msg,
                   nsent, lastSent, lastFund>>

\* SendTx returns nil: faucet.timeouts[msg.URL] = time.Now().Add(timeout - grace);
\* fund = true; faucet.lock.Unlock(); the success reply is built
SubmitOk(w) ==
    /\ pc[w] = "submit"
    /\ \E t \in Readings :
        /\ clock' = t
        /\ ticks' = Ticked(t)
        /\ timeouts' = [id \in DOMAIN timeouts \cup {msg[w].url} |->
                          IF id = msg[w].url
                          THEN NextEligible(t, msg[w].tier)
                          ELSE timeouts[id]]
        /\ lastFund' = [lastFund EXCEPT ![msg[w].url] = [at |-> t, tier |-> msg[w].tier]]
    /\ lock' = None
    /\ reply' = [reply EXCEPT ![w] =
                   SuccessReply("Funding request accepted for Faucet into " \o msg[w].url)]
    /\ now' = [now EXCEPT ![w] = ZeroTime]
    /\ pc' = [pc EXCEPT ![w] = "send"]
    /\ UNCHANGED <<calc, conns, wlock, closed, nread, msg, nsent, lastSent>>

\* send: conn.wlock.Lock()
SendLock(w) ==
    /\ pc[w] = "send"
    /\ ~wlock[w]
    /\ wlock' = [wlock EXCEPT ![w] = TRUE]
    /\ pc' = [pc EXCEPT ![w] = "write"]
    /\ UNCHANGED <<calc, lock, conns, timeouts, closed, clock, ticks, nread,
                   msg, now, reply, nsent, lastSent, lastFund>>

\* mutant: after an error reply the handler returns instead of continuing
WriteOkThenReturn(w) ==
    /\ pc[w] = "write"
    /\ nsent' = [nsent EXCEPT ![w] = @ + 1]
    /\ lastSent' = [lastSent EXCEPT ![w] = [kind |-> reply[w].kind, req |-> nread[w]]]
    /\ wlock' = [wlock EXCEPT ![w] = FALSE]
    /\ reply' = [reply EXCEPT ![w] = NoReply]
    /\ msg' = [msg EXCEPT ![w] = NoMsg]
    /\ pc' = [pc EXCEPT ![w] = IF reply[w].kind = "error" THEN "lockDereg" ELSE "read"]
    /\ UNCHANGED <<calc, lock, conns, timeouts, closed, clock, ticks, nread,
                   now, lastFund>>

\* send: WriteJSON returns nil, wlock is released, the loop continues
WriteOk(w) ==
    /\ pc[w] = "write"
    /\ nsent' = [nsent EXCEPT ![w] = @ + 1]
    /\ lastSent' = [lastSent EXCEPT ![w] =
                      [kind |-> reply[w].kind, req |-> nread[w]]]
    /\ wlock' = [wlock EXCEPT ![w] = FALSE]
    /\ reply' = [reply EXCEPT ![w] = NoReply]
    /\ msg' = [msg EXCEPT ![w] = NoMsg]
    /\ pc' = [pc EXCEPT ![w] = "read"]
    /\ UNCHANGED <<calc, lock, conns, timeouts, closed, clock, ticks, nread,
                   now, lastFund>>

\* mutant: a failed write is tried again
WriteFailRetries(w) ==
    /\ pc[w] = "write"
    /\ wlock' = [wlock EXCEPT ![w] = FALSE]
    /\ pc' = [pc EXCEPT ![w] = "send"]
    /\ UNCHANGED <<calc, lock, conns, timeouts, closed, clock, ticks, nread,
                   msg, now, reply, nsent, lastSent, lastFund>>

\* send: WriteJSON returns an error, wlock is released, the handler returns
WriteFail(w) ==
    /\ pc[w] = "write"
    /\ wlock' = [wlock EXCEPT ![w] = FALSE]
    /\ reply' = [reply EXCEPT ![w] = NoReply]
    /\ msg' = [msg EXCEPT ![w] = NoMsg]
    /\ pc' = [pc EXCEPT ![w] = "lockDereg"]
    /\ UNCHANGED <<calc, lock, conns, timeouts, closed, clock, ticks, nread,
                   now, nsent, lastSent, lastFund>>

\* the deferred function: faucet.lock.Lock(); remove the connection; faucet.lock.Unlock()
Deregister(w) ==
    /\ pc[w] = "lockDereg"
    /\ lock = None
    /\ conns' = Removed(conns, w)
    /\ pc' = [pc EXCEPT ![w] = "close"]
    /\ UNCHANGED <<calc, lock, timeouts, wlock, closed, clock, ticks, nread,
                   msg, now, reply, nsent, lastSent, lastFund>>

\* the deferred conn.Close(), which runs last; then the handler has returned
Close(w) ==
    /\ pc[w] = "close"
    /\ closed' = [closed EXCEPT ![w] = TRUE]
    /\ pc' = [pc EXCEPT ![w] = "exited"]
    /\ UNCHANGED <<calc, lock, conns, timeouts, wlock, clock, ticks, nread,
                   msg, now, reply, nsent, lastSent, lastFund>>

Next ==
    \E w \in Workers :
        \/ Upgrade(w)
        \/ Register(w)
        \/ \E r \in Requests : ReadRequest(w, r)
        \/ ReadError(w)
        \/ RateCheck(w)
        \/ \E e \in TxErrors : SubmitFail(w, e)
        \/ SubmitOk(w)
        \/ SendLock(w)
        \/ WriteOk(w)
        \/ WriteFail(w)
        \/ Deregister(w)
        \/ Close(w)

Spec == Init /\ [][Next]_vars

\* Fairness.  A call that returns is a step that is taken: SendTx returns
\* (with nil or an error), send obtains the connection's write lock and
\* WriteJSON returns (the write deadline bounds it), conn.Close returns.
\* faucet.lock is a sync.RWMutex taken with Lock only; its writers queue on a
\* sync.Mutex, which hands the lock to a waiter that has waited long
\* (starvation mode), so a worker that waits for the lock while it is released
\* again and again obtains it.  ReadJSON waits for the client and has no
\* fairness: a client may never send again.
Fairness ==
    \A w \in Workers :
        /\ WF_vars(SubmitOk(w) \/ \E e \in TxErrors : SubmitFail(w, e))
        /\ WF_vars(SendLock(w))
        /\ WF_vars(WriteOk(w) \/ WriteFail(w))
        /\ WF_vars(Close(w))
        /\ SF_vars(Register(w))
        /\ SF_vars(RateCheck(w))
        /\ SF_vars(Deregister(w))

\* The runs of FairSpec are the runs of Spec in which at most MaxFairReq
\* requests are read and the clock stands still.
FairNext ==
    \E w \in Workers :
        \/ Upgrade(w)
        \/ Register(w)
        \/ \E r \in Requests : NRead < MaxFairReq /\ ReadRequest(w, r)
        \/ ReadError(w)
        \/ RateCheck(w) /\ clock' = clock
        \/ \E e \in TxErrors : SubmitFail(w, e)
        \/ SubmitOk(w) /\ clock' = clock
        \/ SendLock(w)
        \/ WriteOk(w)
        \/ WriteFail(w)
        \/ Deregister(w)
        \/ Close(w)

FairSpec == Init /\ [][FairNext]_vars /\ Fairness

\* ------------------------------------------- the tiers of a configuration
\* The amount and the timeout of a request depend on the configuration and
\* on the request's tier only.  TierSpec draws a configuration and computes
\* them tier after tier.
Payouts == 1..MaxPayout
MinuteFlags == {1, minutesFlag}

TierInit ==
    /\ pc = [w \in Workers |-> "idle"]
    /\ lock = None
    /\ conns = <<>>
    /\ timeouts = <<>>
    /\ wlock = [w \in Workers |-> FALSE]
    /\ closed = [w \in Workers |-> FALSE]
    /\ clock = StartTime
    /\ ticks = 0
    /\ nread = [w \in Workers |-> 0]
    /\ msg = [w \in Workers |-> NoMsg]
    /\ now = [w \in Workers |-> ZeroTime]
    /\ reply = [w \in Workers |-> NoReply]
    /\ nsent = [w \in Workers |-> 0]
    /\ lastSent = [w \in Workers |-> NoSent]
    /\ lastFund = [id \in Ids |-> NoFund]
    /\ \E b \in Payouts, m \in MinuteFlags : calc = Calc(b, m, 0)

NextTier ==
    /\ calc.tier < MaxTier
    /\ calc' = Calc(calc.payout, calc.minutes, calc.tier + 1)
    /\ UNCHANGED <<pc, lock, conns, timeouts, wlock, closed, clock, ticks, nread,
                   msg, now, reply, nsent, lastSent, lastFund>>

TierSpec == TierInit /\ [][NextTier]_vars

\* ---------------------------------------------------------------- claims
InLoop(w) == pc[w] \in {"read", "lockRate", "submit", "send", "write"}
InFlight(w) == pc[w] \in {"lockRate", "submit", "send", "write"}
Window(f) == Cooldown(f.tier) - Grace(f.tier)

\* C1: whenever a worker is inside SendTx for an identifier, under any
\* interleaving of the workers, the time it read at its rate check is past the
\* identifier's stored next-eligible-time, and it is at least cooldown - grace
\* (of the tier of the identifier's previous funding) after that funding.
C1_CooldownSafety ==
    \A w \in Workers :
        pc[w] = "submit" =>
            /\ now[w] > LookupIn(timeouts, msg[w].url)
            /\ lastFund[msg[w].url] # NoFund =>
                  now[w] - lastFund[msg[w].url].at >= Window(lastFund[msg[w].url])

\* a worker submits again for an identifier funded before, while the other
\* connection's worker waits with a request for the same identifier
C1_Witness ==
    \E w, v \in Workers :
        /\ w # v
        /\ pc[w] = "submit" /\ pc[v] = "lockRate"
        /\ msg[w].url = msg[v].url
        /\ lastFund[msg[w].url] # NoFund

\* C3: no worker holds the shared lock while it is inside SendTx.
C3_LockNotHeldInSubmit ==
    \A w \in Workers : pc[w] = "submit" => lock # w

\* C2: a step in which SendTx fails leaves faucet.timeouts as it was (the
\* identifier's entry or its absence), builds an error reply with the message
\* of the error SendTx returned, and leaves the identifier eligible: the time
\* is still past its stored next-eligible-time.
C2_FailedSubmission ==
    [][\A w \in Workers :
          (pc[w] = "submit" /\ pc'[w] = "send" /\ reply'[w].kind = "error") =>
              /\ timeouts' = timeouts
              /\ reply'[w].text \in TxErrors
              /\ clock' > LookupIn(timeouts', msg[w].url)]_vars

\* a submission has failed for an identifier that has an entry
C2_Witness ==
    \E w \in Workers :
        /\ pc[w] = "send"
        /\ reply[w].kind = "error" /\ reply[w].text \in TxErrors
        /\ msg[w].url \in DOMAIN timeouts

\* C4: a request whose tier is >= the tier count is answered with the error
\* reply for an invalid funding tier, and the worker processing it is only ever
\* sending that reply: it does not hold the shared lock, is not at the rate
\* check and is not inside SendTx.
C4_InvalidTierRejected ==
    \A w \in Workers :
        msg[w].tier >= tiersFlag =>
            /\ pc[w] \in {"send", "write"}
            /\ reply[w] = [kind |-> "error", text |-> "Invalid funding tier requested"]
            /\ lock # w

C4_Witness ==
    \E w \in Workers : pc[w] = "write" /\ msg[w].tier >= tiersFlag /\ lock # None

\* C5 as stated: after a funding of an identifier at tier t at time T, a rate
\* check of the identifier passes exactly when its time reading is at or after
\* T + cooldown(t) - grace(t).
C5_AllowedAtBoundary ==
    [][\A w \in Workers :
          (pc[w] = "lockRate" /\ pc'[w] # "lockRate" /\ lastFund[msg[w].url] # NoFund) =>
              (pc'[w] = "submit" <=>
                  clock' >= lastFund[msg[w].url].at + Window(lastFund[msg[w].url]))]_vars

\* C5 as amended: after a funding of an identifier at tier t at time T, a rate
\* check of the identifier passes exactly when its time reading is strictly
\* after T + cooldown(t) - grace(t): a request at T + cooldown(t) - grace(t) - 1
\* and a request at T + cooldown(t) - grace(t) are rejected as rate-limited, a
\* request at T + cooldown(t) - grace(t) + 1 is allowed.
C5_AllowedAfterBoundary ==
    [][\A w \in Workers :
          (pc[w] = "lockRate" /\ pc'[w] # "lockRate" /\ lastFund[msg[w].url] # NoFund) =>
              /\ pc'[w] \in {"submit", "send"}
              /\ pc'[w] = "submit" <=>
                    clock' > lastFund[msg[w].url].at + Window(lastFund[msg[w].url])
              /\ pc'[w] = "send" =>
                    reply'[w] = [kind |-> "error", text |-> "left until next allowance"]]_vars

\* a request is rejected at exactly T + cooldown(t) - grace(t)
C5_Witness ==
    \E w \in Workers :
        /\ pc[w] = "send"
        /\ reply[w].text = "left until next allowance"
        /\ lastFund[msg[w].url] # NoFund
        /\ clock = lastFund[msg[w].url].at + Window(lastFund[msg[w].url])

C7_PerConnectionOrder ==
    \A w \in Workers :
        /\ lastSent[w].req = nsent[w]
        /\ InFlight(w) => nsent[w] = nread[w] - 1
        /\ pc[w] = "read" => nsent[w] = nread[w]
        /\ nread[w] - nsent[w] \in {0, 1}

\* one connection alone: its request for A was funded and answered, and the
\* success reply to its next request, for B, is being written
C7_Witness ==
    \E w \in Workers :
        /\ \A v \in Workers \ {w} : pc[v] = "idle"
        /\ ticks = 0
        /\ pc[w] = "write" /\ reply[w].kind = "success" /\ msg[w].url = "B"
        /\ nread[w] = 2 /\ nsent[w] = 1 /\ lastSent[w].kind = "success"
        /\ lastFund["A"] # NoFund

\* C8: a rate check for an identifier that has no entry passes and goes on to
\* SendTx, and when SendTx succeeds the identifier gets its entry and the
\* success reply.
C8_FirstRequestAllowed ==
    [][\A w \in Workers :
          /\ (pc[w] = "lockRate" /\ pc'[w] # "lockRate" /\ msg[w].url \notin DOMAIN timeouts) =>
                pc'[w] = "submit"
          /\ (pc[w] = "submit" /\ pc'[w] # "submit" /\ reply'[w].kind # "error") =>
                /\ reply'[w].kind = "success"
                /\ msg[w].url \in DOMAIN timeouts'
                /\ timeouts' # timeouts]_vars

\* the first funding of an identifier: a success before the clock has moved
C8_Witness ==
    \E w \in Workers :
        /\ pc[w] = "send" /\ reply[w].kind = "success"
        /\ ticks = 0 /\ msg[w].tier = 1

\* C9: a connection that is closed, or whose worker is about to close it or has
\* exited, is not in the registry.
C9_NoDeadConnectionRegistered ==
    \A w \in Workers :
        (closed[w] \/ pc[w] \in {"close", "exited"}) => ~Registered(w)

\* a worker has torn down its connection while the other one stays registered
C9_Witness ==
    \E w, v \in Workers :
        /\ w # v
        /\ closed[w] /\ pc[w] = "exited" /\ nread[w] > 0
        /\ Registered(v)

\* C10: a worker inside the request loop has its connection registered and
\* open, and a step that writes an error reply takes the worker back to reading
\* the next request, its connection still registered and open.
C10_RecoverableErrors ==
    /\ [](\A w \in Workers : InLoop(w) => Registered(w) /\ ~closed[w])
    /\ [][\A w \in Workers :
             (pc[w] = "write" /\ reply[w].kind = "error" /\ nsent'[w] = nsent[w] + 1) =>
                 /\ pc'[w] = "read"
                 /\ \E i \in 1..Len(conns') : conns'[i] = w
                 /\ ~closed'[w]]_vars

\* after an error reply the same connection's next request reaches SendTx
C10_Witness ==
    \E w \in Workers :
        pc[w] = "submit" /\ lastSent[w].kind = "error" /\ nsent[w] = 2

Teardown(w) == pc[w] \in {"lockDereg", "close", "exited"}

\* C11: a step in which a send fails or a receive fails takes the worker to
\* its teardown, without the shared lock and without another try; a worker in
\* teardown stays there and reads and answers no further request; and the
\* step leaves faucet.timeouts and every other worker as they were.
C11_TerminalErrors ==
    /\ [](\A w \in Workers :
            Teardown(w) => lock # w /\ ~wlock[w] /\ msg[w] = NoMsg /\ reply[w] = NoReply)
    /\ [][\A w \in Workers :
             /\ (pc[w] \in {"read", "write"} /\ pc'[w] # pc[w] /\ nread'[w] = nread[w]
                   /\ nsent'[w] = nsent[w]) =>
                    /\ pc'[w] = "lockDereg"
                    /\ lock' = lock /\ lock # w
                    /\ timeouts' = timeouts
                    /\ \A v \in Workers \ {w} :
                          /\ pc'[v] = pc[v] /\ msg'[v] = msg[v] /\ reply'[v] = reply[v]
                          /\ wlock'[v] = wlock[v] /\ closed'[v] = closed[v]
             /\ Teardown(w) =>
                    /\ pc'[w] \in {"lockDereg", "close", "exited"}
                    /\ nread'[w] = nread[w] /\ nsent'[w] = nsent[w]
                    /\ timeouts' = timeouts \/ pc'[w] = pc[w]]_vars

\* a connection was torn down after a failed send, and the other connection's
\* worker goes on to submit a transaction
C11_Witness ==
    \E w, v \in Workers :
        /\ w # v
        /\ pc[w] = "exited" /\ closed[w] /\ nsent[w] < nread[w]
        /\ pc[v] = "submit"

Nanoseconds(n) == MulPow(FromInt(n), 1000, 3)

\* three times a duration, in the integers
Times3(d) == [neg |-> d.neg, mag |-> Mul(d.mag, 3)]

Commits(w) == pc[w] = "submit" /\ pc'[w] = "send" /\ reply'[w].kind = "success"

\* C14 (as stated): a successful funding at tier t stores
\* now + cooldown(t) - grace(t), where now is the reading of the clock that the
\* request's rate check compared with the stored time.
C14_CommitFromCheckReading ==
    [][\A w \in Workers :
         Commits(w) =>
            timeouts'[msg[w].url]
               = now[w] + Cooldown(msg[w].tier) - (Cooldown(msg[w].tier) \div GraceDiv)]_vars

\* C14 (amended): a successful funding at tier t stores
\* now + cooldown(t) - grace(t) with grace(t) = cooldown(t) div 288, where now
\* is a second reading of the clock, taken when the value is committed and
\* never earlier than the reading of the rate check; with 1440 minutes, tier 0
\* commits now + 1435 minutes.
C14_CommitFromCommitReading ==
    [][\A w \in Workers :
         Commits(w) =>
            /\ timeouts'[msg[w].url]
                  = clock' + Cooldown(msg[w].tier) - (Cooldown(msg[w].tier) \div GraceDiv)
            /\ clock' >= now[w]
            /\ msg[w].tier = 0 => timeouts'[msg[w].url] = clock' + 1435 * Minute
            /\ msg[w].tier = 1 => timeouts'[msg[w].url] = clock' + (4320 - 15) * Minute]_vars

\* a tier 0 funding committed at a reading later than the first one
C14_Witness ==
    \E w \in Workers :
        /\ pc[w] = "send" /\ reply[w].kind = "success" /\ msg[w].tier = 0
        /\ clock > StartTime
        /\ lastFund[msg[w].url].at = clock
        /\ timeouts[msg[w].url] = clock + 1435 * Minute

\* C15: while one worker waits for the submission of a request for one
\* identifier, a worker of another connection that has read a valid request
\* for another identifier is not blocked: it can take its rate check.
C15_UnrelatedNotBlocked ==
    \A w, v \in Workers :
        (/\ w # v
         /\ pc[w] = "submit"
         /\ pc[v] = "lockRate"
         /\ msg[v].url # msg[w].url) => ENABLED RateCheck(v)

\* C16: two requests for one eligible identifier on two connections can both
\* pass the rate check before either commits: while one worker waits for its
\* submission, the other one, whose request for the same identifier is still
\* eligible, can pass its rate check and reach the submission too.
C16_BothCanPassCheck ==
    \A w, v \in Workers :
        (/\ w # v
         /\ pc[w] = "submit"
         /\ pc[v] = "lockRate"
         /\ msg[v].url = msg[w].url
         /\ After(clock, Lookup(msg[v].url))) => ENABLED RateCheck(v)

\* C17: a worker inside send (waiting for the connection's write lock or
\* writing) does not hold faucet.lock; the write lock of a connection is held
\* only by that connection's worker, inside send; so while a worker is inside
\* send, the worker of another connection can enter its own send and, unless
\* a third party holds faucet.lock, take its rate check, register and
\* deregister.
C17_SendBlocksNobody ==
    \A w \in Workers :
        /\ pc[w] \in {"send", "write"} => lock # w
        /\ wlock[w] <=> pc[w] = "write"
        /\ pc[w] \in {"send", "write"} =>
              \A v \in Workers \ {w} :
                  /\ pc[v] = "send" => ENABLED SendLock(v)
                  /\ pc[v] = "write" => ENABLED WriteOk(v)
                  /\ (pc[v] = "lockRate" /\ lock \notin Workers \ {w, v}) => ENABLED RateCheck(v)
                  /\ (pc[v] = "lockReg" /\ lock \notin Workers \ {w, v}) => ENABLED Register(v)
                  /\ (pc[v] = "lockDereg" /\ lock \notin Workers \ {w, v}) => ENABLED Deregister(v)

\* one worker is writing a reply while the other one, which has read its
\* first request, waits for faucet.lock and can take it
C17_Witness ==
    \E w, v \in Workers :
        /\ w # v
        /\ pc[w] = "write" /\ wlock[w]
        /\ pc[v] = "lockRate" /\ lock = None

\* C18: every request read gets exactly one reply attempt before the next
\* read: from the read to the attempt the worker has one request more read
\* than answered, a reply is built once and handed to one write, and a write
\* that returns is followed by the next read or by the teardown.  The reply
\* built is a success exactly when the submission returned no error and the
\* identifier's next eligible time was committed in the same step, and an
\* error otherwise.
C18_OneMatchingReply ==
    /\ [](\A w \in Workers :
            /\ pc[w] \in {"send", "write"} <=> reply[w] # NoReply
            /\ InFlight(w) => nsent[w] < nread[w]
            /\ pc[w] = "read" => nsent[w] = nread[w])
    /\ [][\A w \in Workers :
             /\ reply'[w] # reply[w] /\ reply'[w] # NoReply =>
                   /\ reply[w] = NoReply
                   /\ pc'[w] = "send"
                   /\ reply'[w].kind \in {"success", "error"}
                   /\ reply'[w].kind = "success" <=>
                         /\ pc[w] = "submit"
                         /\ timeouts' # timeouts
                         /\ timeouts'[msg[w].url] > clock'
             /\ (pc[w] = "submit" /\ pc'[w] # "submit" /\ timeouts' = timeouts) =>
                   reply'[w].kind = "error"
             /\ pc[w] = "send" /\ pc'[w] # "send" => pc'[w] = "write" /\ reply'[w] = reply[w]
             /\ pc[w] = "write" /\ pc'[w] # "write" =>
                   /\ reply'[w] = NoReply
                   /\ \/ pc'[w] = "read" /\ nsent'[w] = nsent[w] + 1
                         /\ nsent'[w] = nread[w] /\ lastSent'[w].kind = reply[w].kind
                      \/ pc'[w] = "lockDereg" /\ nsent'[w] = nsent[w]
             /\ nread'[w] # nread[w] => pc[w] = "read" /\ nsent[w] = nread[w]]_vars

\* a worker whose first request was funded and answered with a success is
\* writing the error reply of its second request
C18_Witness ==
    \E w \in Workers :
        /\ pc[w] = "write" /\ reply[w].kind = "error"
        /\ nread[w] = 2 /\ nsent[w] = 1 /\ lastSent[w] = [kind |-> "success", req |-> 1]

\* how many entries of the registry are connection w
Entries(w) == Cardinality({i \in 1..Len(conns) : conns[i] = w})

\* C19: the registry holds exactly the connections whose worker has
\* registered and has not yet deregistered, each of them once; so a
\* deregistration removes the worker's own entry and no other.
C19_RegistryMembership ==
    /\ \A w \in Workers :
          Entries(w) = IF pc[w] \in {"read", "lockRate", "submit", "send", "write", "lockDereg"}
                       THEN 1 ELSE 0
    /\ \A i \in 1..Len(conns) : conns[i] \in Workers

\* the worker of one connection has deregistered, after reading a request,
\* and the registry holds the other connection, whose worker is in its loop
C19_Witness ==
    \E w, v \in Workers :
        /\ w # v
        /\ pc[w] = "close" /\ nread[w] > 0
        /\ conns = <<v>> /\ pc[v] = "lockRate"

\* C20: faucet.lock is held only by a worker that waits for its submission to
\* return: it is released before the worker replies, reads on or tears down,
\* so whenever the lock is held its holder can go on; and, every submission
\* and every send returning, a request that was read gets its reply attempt
\* and a worker that waits for faucet.lock obtains it.
C20_LockReleasedAndProgress ==
    /\ [](\A w \in Workers :
            /\ lock = w => pc[w] = "submit" /\ ENABLED SubmitOk(w)
            /\ lock \in Workers \cup {None})
    /\ \A w \in Workers :
          pc[w] \in {"lockReg", "lockRate", "submit", "send", "lockDereg"}
             ~> pc[w] \in {"read", "write", "close"}

\* one worker waits for faucet.lock with a request read while the other one
\* holds the lock, inside its submission
C20_Witness ==
    \E w, v \in Workers :
        /\ w # v
        /\ pc[w] = "lockRate" /\ msg[w] # NoMsg
        /\ pc[v] = "submit" /\ lock = v
====
